---- MODULE Spec2Model ----
(***************************************************************************)
(* A model of the QR-DQN trainer of "QR DQN/qr_dqn_FrozenLake.py" and of   *)
(* the navigation environment of "QR DQN/custom_env/custom_env6.py".       *)
(*                                                                         *)
(* Real numbers are kept as exact integer numerators over a fixed          *)
(* denominator that is named where the quantity is introduced; floating    *)
(* point rounding is not modelled.  The value networks themselves (the     *)
(* four linear layers) are not modelled: wherever the code reads the       *)
(* output of forward(), that output is an input drawn from a bounded set,  *)
(* and the parameters of a network are an abstract value.                  *)
(***************************************************************************)
EXTENDS Integers, Sequences, FiniteSets, TLC

VARIABLES
    \* ---- ReplayBuffer (qr_dqn_FrozenLake.py 10-28)
    capacity,       \* self.capacity, the deque's maxlen
    memory,         \* self.memory, oldest transition first
    log,            \* history: every transition handed to store, in call order
    sampled,        \* history: the most recent ReplayBuffer call and its outcome
    \* ---- one training step (qr_dqn_FrozenLake.py 66-107)
    action_dim,     \* number of actions
    quant_num,      \* number of quantiles per action
    eval_out,       \* eval_model.forward(observation):        [batch][action][quantile]
    target_out,     \* target_model.forward(next_observation):  [batch][action][quantile]
    b_action,       \* the batch's actions      [batch]
    b_reward,       \* the batch's rewards      [batch]
    b_done,         \* the batch's done flags   [batch], 0 or 1
    target_dist,    \* get_target_distribution's first result  [batch][quantile]
    tau,            \* get_target_distribution's second result [batch][quantile]
    quantile_loss,  \* line 106                                 [batch][quantile]
    loss,           \* line 107, as a fraction [num, den]
    stage,          \* "batch": tensors built; "loss": lines 97-107 have run
    \* ---- the two networks and the main program (qr_dqn_FrozenLake.py 31-63, 118-190)
    params,         \* the parameters of eval_net and target_net (abstract values)
    training,       \* nn.Module.training of eval_net and target_net
    batch_size,     \* hyperparameter, line 130
    epsilon_decay,  \* hyperparameter, line 121, over EpsDen
    epsilon_min,    \* hyperparameter, line 122, over EpsDen
    pc,             \* the statement the main program is at
    error,          \* the exception that ended the program, or "none"
    count,          \* line 154
    epsilon,        \* line 155, over EpsDen
    episode,        \* i of line 158
    obs,            \* the current observation
    action,         \* the action act returned
    next_obs, reward, done,     \* what env.step returned (lines 168-169)
    trains,         \* history: number of calls of train
    sync_log,       \* history: the values of trains at which the target was synced
    \* ---- CustomEnv6 (custom_env/custom_env6.py)
    Map,            \* self.Map, the grid read from the data file: [row][column]
    StartState,     \* self.StartState, <<row, column>>
    GoalState,      \* self.GoalState
    CurrentState,   \* self.CurrentState
    OldState,       \* self.OldState
    env_pc,         \* "new", "constructed", "ready" (reset was called) or "error"
    env_ret         \* the most recent CustomEnv6 call and what it returned or raised

bufVars == <<capacity, memory, log, sampled>>
stepVars == <<action_dim, quant_num, eval_out, target_out, b_action, b_reward,
              b_done, target_dist, tau, quantile_loss, loss, stage>>
netVars == <<params, training>>
mainVars == <<batch_size, epsilon_decay, epsilon_min, pc, error, count, epsilon,
              episode, obs, action, next_obs, reward, done, trains, sync_log>>

envVars == <<Map, StartState, GoalState, CurrentState, OldState, env_pc, env_ret>>

vars == <<bufVars, stepVars, netVars, mainVars, envVars>>

(***************************************************************************)
(* Bounds of the model.                                                    *)
(***************************************************************************)
MaxCapacity == 2        \* largest replay capacity explored
MaxStores == 4          \* store calls explored in the buffer specification

Min(a, b) == IF a <= b THEN a ELSE b
Max(a, b) == IF a >= b THEN a ELSE b
Abs(a) == IF a < 0 THEN 0 - a ELSE a

(***************************************************************************)
(* ReplayBuffer                                                            *)
(***************************************************************************)
\* observation_dim of the buffer specification (env.observation_space.n)
Observations == 0 .. 1

\* np.eye(observation_dim)[observation]: the one-hot row of an observation
OneHot(observation) == [i \in Observations |-> IF i = observation THEN 1 ELSE 0]

\* the arguments of the store calls explored: four transitions that differ
\* in every field, so that order and pairing are visible
StoreInputs ==
    { <<0, 0, 0, 0, FALSE>>, <<0, 1, 1, 1, TRUE>>,
      <<1, 0, 0, 1, FALSE>>, <<1, 1, 0, 0, TRUE>> }

\* deque(maxlen=capacity): a negative maxlen raises ValueError
ReplayBuffer_init(cap) == IF cap < 0 THEN "ValueError" ELSE "ok"

\* a deque that refuses the new item when it is full (keeps the oldest)
deque_append_keep_oldest(mem, cap, item) ==
    IF Len(mem) >= cap THEN mem ELSE Append(mem, item)

\* deque.append on a deque with maxlen: at maxlen the leftmost item is
\* discarded; with maxlen 0 the deque stays empty
deque_append(mem, cap, item) ==
    IF cap = 0 THEN << >>
    ELSE IF Len(mem) >= cap THEN Append(Tail(mem), item)
    ELSE Append(mem, item)

\* the list store appends: [observation, action, reward, next_observation, done]
Transition(observation, act, rew, next_observation, d) ==
    << OneHot(observation), act, rew, OneHot(next_observation), d >>

\* ReplayBuffer.store
store(observation, act, rew, next_observation, d) ==
    /\ memory' = deque_append(memory, capacity,
                              Transition(observation, act, rew, next_observation, d))
    /\ UNCHANGED capacity

\* the orders in which random.sample can return k items of n: every
\* sequence of k pairwise distinct positions
Selections(k, n) ==
    { s \in [1 .. k -> 1 .. n] : \A i, j \in 1 .. k : i # j => s[i] # s[j] }

\* zip(*batch) followed by the five-way unpacking: field f of every item
Column(batch, f) == [i \in 1 .. Len(batch) |-> batch[i][f]]

\* ReplayBuffer.sample with the positions random.sample drew
sample_result(mem, size, sel) ==
    LET batch == [i \in 1 .. size |-> mem[sel[i]]]
    IN  IF size = 0
        THEN \* zip(*[]) yields nothing: the unpacking into five names raises
             [op |-> "sample", size |-> size, status |-> "ValueError"]
        ELSE [op |-> "sample", size |-> size, status |-> "ok",
              observation |-> Column(batch, 1), action |-> Column(batch, 2),
              reward |-> Column(batch, 3), next_observation |-> Column(batch, 4),
              done |-> Column(batch, 5)]

\* ReplayBuffer.sample: what a call can return or raise
sample(mem, size) ==
    IF size < 0 \/ size > Len(mem)
    THEN \* random.sample: "Sample larger than population or is negative"
         { [op |-> "sample", size |-> size, status |-> "ValueError"] }
    ELSE { sample_result(mem, size, sel) : sel \in Selections(size, Len(mem)) }

\* ReplayBuffer.__len__
len_buffer == Len(memory)

\* the variables of the training step, while no training step is modelled
\* the variables of the environment, while no environment is modelled
EnvIdle ==
    /\ Map = << >>
    /\ StartState = <<0, 0>>
    /\ GoalState = <<0, 0>>
    /\ CurrentState = <<0, 0>>
    /\ OldState = <<0, 0>>
    /\ env_pc = "none"
    /\ env_ret = [op |-> "none"]

DimsIdle ==
    /\ action_dim = 0
    /\ quant_num = 0

StepIdle ==
    /\ eval_out = << >>
    /\ target_out = << >>
    /\ b_action = << >>
    /\ b_reward = << >>
    /\ b_done = << >>
    /\ target_dist = << >>
    /\ tau = << >>
    /\ quantile_loss = << >>
    /\ loss = [num |-> 0, den |-> 1]
    /\ stage = "none"

\* the variables of the networks and of the main program, while unused
NetIdle ==
    /\ params = [eval_net |-> 0, target_net |-> 0]
    /\ training = [eval_net |-> TRUE, target_net |-> TRUE]

MainIdle ==
    /\ batch_size = 0
    /\ epsilon_decay = 0
    /\ epsilon_min = 0
    /\ pc = "none"
    /\ error = "none"
    /\ count = 0
    /\ epsilon = 0
    /\ episode = 0
    /\ obs = 0
    /\ action = 0
    /\ next_obs = 0
    /\ reward = 0
    /\ done = FALSE
    /\ trains = 0
    /\ sync_log = << >>

BufInit ==
    /\ EnvIdle
    /\ capacity \in 1 .. MaxCapacity
    /\ memory = << >>
    /\ log = << >>
    /\ sampled = [op |-> "init"]
    /\ DimsIdle
    /\ StepIdle
    /\ NetIdle
    /\ MainIdle

BufStore ==
    /\ Len(log) < MaxStores
    /\ \E t \in StoreInputs :
          /\ store(t[1], t[2], t[3], t[4], t[5])
          /\ log' = Append(log, Transition(t[1], t[2], t[3], t[4], t[5]))
    /\ sampled' = [op |-> "store"]
    /\ UNCHANGED <<envVars, stepVars, netVars, mainVars>>

BufSample ==
    /\ \E size \in 0 .. MaxCapacity + 1 : sampled' \in sample(memory, size)
    /\ UNCHANGED <<envVars, capacity, memory, log, stepVars, netVars, mainVars>>

BufNext == BufStore \/ BufSample

SpecBuffer == BufInit /\ [][BufNext]_vars

(***************************************************************************)
(* C3: for capacity C >= 1, after any sequence of store calls the buffer   *)
(* holds min(number of stores, C) transitions, never more than C, and they *)
(* are exactly the most recent ones in insertion order: after C + k stores *)
(* the earliest k are gone.                                                *)
(***************************************************************************)
C3_RingEviction ==
    capacity >= 1 =>
        LET n == Len(log)
            kept == Min(n, capacity)
        IN  /\ len_buffer = kept
            /\ len_buffer <= capacity
            /\ \A i \in 1 .. kept : memory[i] = log[n - kept + i]

\* two transitions have been evicted from a full buffer
C3_Witness ==
    /\ capacity >= 1
    /\ Len(log) = capacity + 2
    /\ len_buffer = capacity
    /\ memory[1] # log[1]

(***************************************************************************)
(* C4: sample(n) with n <= length returns exactly n transitions taken from *)
(* n distinct positions of the buffer, the five fields of each transition  *)
(* at the same index of the five returned sequences; sample(n) with        *)
(* n > length fails.                                                       *)
(***************************************************************************)
SampleReturns(size) ==
    /\ sampled.status = "ok"
    /\ \A f \in {"observation", "action", "reward", "next_observation", "done"} :
           Len(sampled[f]) = size
    /\ \E sel \in Selections(size, Len(memory)) :
           \A i \in 1 .. size :
               << sampled.observation[i], sampled.action[i], sampled.reward[i],
                  sampled.next_observation[i], sampled.done[i] >> = memory[sel[i]]

C4_SampleContract ==
    sampled.op = "sample" =>
        IF sampled.size <= len_buffer
        THEN SampleReturns(sampled.size)
        ELSE sampled.status # "ok"

\* the part of C4 the code keeps: every size from 1 to the length
C4_SampleContractFromOne ==
    (sampled.op = "sample" /\ sampled.size >= 1) =>
        IF sampled.size <= len_buffer
        THEN SampleReturns(sampled.size)
        ELSE sampled.status # "ok"

(***************************************************************************)
(* One training step: get_target_distribution and the loss of train.       *)
(*                                                                         *)
(* Network outputs and rewards are numerators over ValueDen; gamma is      *)
(* GammaNum / GammaDen; target_dist and u are numerators over TargetDen;   *)
(* tau is a numerator over 2 * quant_num; an element of quantile_loss is a *)
(* numerator over 4 * quant_num * TargetDen^2.                             *)
(***************************************************************************)
ValueDen == 2
GammaNum == 99
GammaDen == 100
KNum == 1
TargetDen == ValueDen * GammaDen

\* k as a numerator over TargetDen
KThreshold == KNum * TargetDen

RECURSIVE SeqSum(_)
SeqSum(s) == IF s = << >> THEN 0 ELSE s[1] + SeqSum(Tail(s))

\* tau_hat[i - 1] = linspace(0, 1 - 1/N, N)[i - 1] + 0.5/N = (2(i-1) + 1) / 2N
TauHat(i) == 2 * (i - 1) + 1

\* the least-valued action instead of the greatest
least_action(q) ==
    CHOOSE a \in 1 .. Len(q) :
        /\ \A c \in 1 .. Len(q) : SeqSum(q[c]) >= SeqSum(q[a])
        /\ \A c \in 1 .. a - 1 : SeqSum(q[c]) > SeqSum(q[a])

\* next_dist.mean(2).max(1)[1] for one batch element: the first action of
\* greatest mean (the means share the divisor quant_num), as an index from 1
greedy_action(q) ==
    CHOOSE a \in 1 .. Len(q) :
        /\ \A c \in 1 .. Len(q) : SeqSum(q[c]) <= SeqSum(q[a])
        /\ \A c \in 1 .. a - 1 : SeqSum(q[c]) < SeqSum(q[a])

\* torch.argsort(v) ascending, positions from 1: result[r] is the position
\* of the r-th smallest value; the order of equal values is not specified
ArgSorts(v) ==
    { p \in Permutations(1 .. Len(v)) :
        \A r \in 1 .. Len(v) - 1 : v[p[r]] <= v[p[r + 1]] }

\* x.clamp(lo, hi)
clamp(x, lo, hi) == Max(lo, Min(x, hi))

\* next_dist.gather(1, next_action).squeeze(1): lines 70-73
next_dist_of(out) == [b \in 1 .. Len(out) |-> out[b][greedy_action(out[b])]]

\* get_target_distribution, lines 66-85, given the permutations quant_idx
\* that argsort returned
get_target_distribution(out, rewards, dones, quant_idx) ==
    LET next_dist == next_dist_of(out)
        batch == 1 .. Len(out)
    IN  [ target_dist |->
            [b \in batch |->
               [j \in 1 .. Len(next_dist[b]) |->
                  clamp(rewards[b] * GammaDen
                          + GammaNum * (1 - dones[b]) * next_dist[b][j],
                        0, TargetDen)]],
          tau |->
            [b \in batch |->
               [j \in 1 .. Len(next_dist[b]) |-> TauHat(quant_idx[b][j])]] ]

\* the results torch.argsort(next_dist, dim=1) can have
QuantIdxChoices(out) ==
    { q \in [1 .. Len(out) -> UNION { ArgSorts(v) : v \in { next_dist_of(out)[b] : b \in 1 .. Len(out) } }] :
        \A b \in 1 .. Len(out) : q[b] \in ArgSorts(next_dist_of(out)[b]) }

\* twice the Huber term of lines 104-105 for an error u over TargetDen, as
\* a numerator over TargetDen^2
huber_loss2(u) ==
    LET a == Abs(u)
        c == clamp(a, 0, KThreshold)
    IN  c * c + 2 * KThreshold * (a - c) - KThreshold * KThreshold

\* lines 97-107 of train
train_loss(out, actions, tdist, t, size) ==
    LET batch == 1 .. Len(out)
        dist == [b \in batch |-> out[b][actions[b] + 1]]
        u == [b \in batch |->
                [j \in 1 .. Len(dist[b]) |-> tdist[b][j] - dist[b][j] * GammaDen]]
        N == Len(dist[1])
        ql == [b \in batch |->
                 [j \in 1 .. Len(dist[b]) |->
                    Abs(t[b][j] - (IF u[b][j] < 0 THEN 2 * N ELSE 0))
                      * huber_loss2(u[b][j])]]
    IN  [ quantile_loss |-> ql,
          loss |-> [ num |-> SeqSum([b \in batch |-> SeqSum(ql[b])]),
                     den |-> 4 * N * TargetDen * TargetDen * size ] ]

\* what the two networks can return: numerators over ValueDen
TargetOutValues == {-1, 0, 2}
EvalOutValues == {-3, 1, 5}

\* <<action_dim, quant_num, batch_size>> of the training steps explored
Shapes == { <<1, 3, 1>>, <<2, 2, 1>>, <<2, 1, 1>>, <<1, 1, 2>> }

Tensor(B, A, N, V) == [1 .. B -> [1 .. A -> [1 .. N -> V]]]

\* the variables of the replay buffer, while unused
BufIdle ==
    /\ capacity = 0
    /\ memory = << >>
    /\ log = << >>
    /\ sampled = [op |-> "init"]

StepInit ==
    /\ EnvIdle
    /\ BufIdle
    /\ NetIdle
    /\ MainIdle
    /\ \E sh \in Shapes :
          /\ action_dim = sh[1]
          /\ quant_num = sh[2]
          /\ eval_out \in Tensor(sh[3], sh[1], sh[2], EvalOutValues)
          /\ target_out \in Tensor(sh[3], sh[1], sh[2], TargetOutValues)
          /\ b_action \in [1 .. sh[3] -> 0 .. sh[1] - 1]
          /\ b_reward \in [1 .. sh[3] -> {0, ValueDen}]
          /\ b_done \in [1 .. sh[3] -> {0, 1}]
    /\ target_dist = << >>
    /\ tau = << >>
    /\ quantile_loss = << >>
    /\ loss = [num |-> 0, den |-> 1]
    /\ stage = "batch"

\* train, lines 97-107, on the tensors of a sampled batch
TrainLoss ==
    /\ stage = "batch"
    /\ \E quant_idx \in QuantIdxChoices(target_out) :
          LET t == get_target_distribution(target_out, b_reward, b_done, quant_idx)
              l == train_loss(eval_out, b_action, t.target_dist, t.tau, Len(eval_out))
          IN  /\ target_dist' = t.target_dist
              /\ tau' = t.tau
              /\ quantile_loss' = l.quantile_loss
              /\ loss' = l.loss
    /\ stage' = "loss"
    /\ UNCHANGED <<envVars, bufVars, netVars, mainVars, action_dim, quant_num, eval_out,
                   target_out, b_action, b_reward, b_done>>

StepNext == TrainLoss

SpecStep == StepInit /\ [][StepNext]_vars

(***************************************************************************)
(* C1: for every batch element whose next_dist values are pairwise         *)
(* distinct, and every slot j, tau[j] is tau_hat[r] where r is the         *)
(* ascending rank of next_dist[j] among the element's values.              *)
(***************************************************************************)
Distinct(v) == \A i, j \in 1 .. Len(v) : i # j => v[i] # v[j]

\* the ascending rank, from 0, of v[j] among the values of v
Rank(v, j) == Cardinality({ i \in 1 .. Len(v) : v[i] < v[j] })

C1_RankAlignment ==
    stage = "loss" =>
        \A b \in 1 .. Len(target_out) :
            LET next_dist == next_dist_of(target_out)[b]
            IN  Distinct(next_dist) =>
                    \A j \in 1 .. quant_num :
                        tau[b][j] = TauHat(Rank(next_dist, j) + 1)

(***************************************************************************)
(* C2: every element of the quantile loss is >= 0, and so is the loss      *)
(* (their sum divided by batch_size).                                      *)
(***************************************************************************)
C2_LossNonNegative ==
    stage = "loss" =>
        /\ \A b \in 1 .. Len(quantile_loss) :
              \A j \in 1 .. quant_num : quantile_loss[b][j] >= 0
        /\ loss.num >= 0
        /\ loss.den > 0

(***************************************************************************)
(* C7: with quant_num = 1 the target is the scalar                         *)
(* reward + gamma * (1 - done) * max_a Q_target(next_obs, a), tau is 0.5   *)
(* everywhere and the loss is the plain Huber loss of                      *)
(* target - Q_online(obs, action), averaged over the batch.                *)
(***************************************************************************)
\* max_a Q_target(next_obs, a) of batch element b, over ValueDen
MaxQ(b) ==
    CHOOSE q \in { target_out[b][a][1] : a \in 1 .. action_dim } :
        \A a \in 1 .. action_dim : target_out[b][a][1] <= q

\* reward + gamma * (1 - done) * max_a Q, over TargetDen
DqnTarget(b) == b_reward[b] * GammaDen + GammaNum * (1 - b_done[b]) * MaxQ(b)

\* twice the plain Huber loss of an error u over TargetDen, over TargetDen^2:
\* u^2 when |u| <= k, and 2 k |u| - k^2 beyond
PlainHuber2(u) ==
    IF Abs(u) <= KThreshold THEN u * u
    ELSE 2 * KThreshold * Abs(u) - KThreshold * KThreshold

\* target - Q_online(obs, action) of batch element b, over TargetDen
DqnError(b, target) == target - eval_out[b][b_action[b] + 1][1] * GammaDen

exploration == 1        \* line 126, scaled down
update_freq == 2        \* line 129, scaled down
episodes == 3           \* line 127, scaled down
MaxBatch == 3           \* largest batch_size explored
MaxCount == 5           \* ticks explored
MaxParam == 1           \* parameter values are 0 .. MaxParam
EpsDen == 1000
epsilon_init == 950

Models == {"eval_net", "target_net"}
ParamSpace == 0 .. MaxParam

\* <<epsilon_decay, epsilon_min>>: the values of lines 121-122, and a
\* schedule steep enough to reach epsilon_min within the episodes explored
EpsilonSchedules == { <<995, 10>>, <<500, 300>> }

\* what random.random() can return, over EpsDen
RandomDraws == {0, 500, 999}

\* what forward() can return for one observation: [action][quantile]
ActOutputs == [1 .. action_dim -> [1 .. Max(quant_num, 0) -> {0, 1}]]

\* what env.step can return: <<next_obs, reward, terminated or truncated>>
EnvOutcomes ==
    { <<n, IF d /\ n = 1 THEN 1 ELSE 0, d>> : n \in Observations, d \in BOOLEAN }

\* QR_DQN.__init__: nn.Linear(128, action_dim * quant_num) refuses a
\* negative number of output features and accepts zero
QR_DQN_init(adim, qnum) == IF adim * qnum < 0 THEN "RuntimeError" ELSE "ok"

\* QR_DQN.act on network m: r is what random.random() returned, out what
\* forward returned, choice what random.choice returned
act(m, r, out, choice) ==
    /\ action' = IF r > epsilon
                 THEN IF quant_num >= 1
                      THEN greedy_action(out) - 1   \* lines 57-59
                      ELSE choice                   \* argmax over means of nothing
                 ELSE choice                        \* line 61
    \* line 53 self.eval() clears the flag, line 62 self.train() sets it
    /\ training' = [training EXCEPT ![m] = TRUE]
    /\ UNCHANGED params

\* a sync one step late
sync_target_late(cnt, eval_after, target_before) ==
    IF cnt % update_freq = 1 THEN eval_after ELSE target_before

\* lines 114-115: the target parameters after a training step
sync_target(cnt, eval_after, target_before) ==
    IF cnt % update_freq = 0 THEN eval_after ELSE target_before

\* epsilon decayed without its floor
epsilon_update_unbounded(eps) == (eps * epsilon_decay) \div EpsDen

\* lines 179-180
epsilon_update(eps) ==
    IF eps > epsilon_min
    THEN Max((eps * epsilon_decay) \div EpsDen, epsilon_min)
    ELSE eps

\* an uncaught exception ends the program
Raise(exception) ==
    /\ pc' = "error"
    /\ error' = exception

\* train, lines 88-115.  The loss of lines 97-107 (train_loss) has no effect
\* but through the gradient step, which leaves eval_net with any parameters.
train ==
    /\ trains' = trains + 1
    /\ \E batch \in sample(memory, batch_size) :
          IF batch.status # "ok"
          THEN /\ Raise(batch.status)                   \* line 89
               /\ UNCHANGED <<params, sync_log>>
          ELSE IF quant_num = 0
          THEN /\ Raise("ZeroDivisionError")            \* line 81: 1. / quant_num
               /\ UNCHANGED <<params, sync_log>>
          ELSE \E p \in ParamSpace :
                  /\ params' = [eval_net |-> p,         \* line 112
                                target_net |-> sync_target(count, p, params.target_net)]
                  /\ sync_log' = IF count % update_freq = 0
                                 THEN Append(sync_log, trains + 1)
                                 ELSE sync_log
                  /\ pc' = "done"
                  /\ UNCHANGED error

MainInit ==
    /\ EnvIdle
    /\ capacity \in -1 .. MaxCapacity
    /\ memory = << >>
    /\ log = << >>
    /\ sampled = [op |-> "init"]
    /\ action_dim = 2
    /\ quant_num \in -1 .. 1
    /\ StepIdle
    /\ params \in [Models -> ParamSpace]
    /\ training = [eval_net |-> TRUE, target_net |-> TRUE]
    /\ batch_size \in -1 .. MaxBatch
    /\ \E sch \in EpsilonSchedules : epsilon_decay = sch[1] /\ epsilon_min = sch[2]
    /\ pc = "setup"
    /\ error = "none"
    /\ count = 0
    /\ epsilon = epsilon_init
    /\ episode = 0
    /\ obs = 0
    /\ action = 0
    /\ next_obs = 0
    /\ reward = 0
    /\ done = FALSE
    /\ trains = 0
    /\ sync_log = << >>

\* lines 142-156: the buffer and the two networks are built, the target
\* takes the online parameters and is put in evaluation mode
Setup ==
    /\ pc = "setup"
    /\ IF ReplayBuffer_init(capacity) # "ok"
       THEN Raise(ReplayBuffer_init(capacity)) /\ UNCHANGED netVars
       ELSE IF QR_DQN_init(action_dim, quant_num) # "ok"
       THEN Raise(QR_DQN_init(action_dim, quant_num)) /\ UNCHANGED netVars
       ELSE /\ params' = [params EXCEPT !.target_net = params.eval_net]
            /\ training' = [training EXCEPT !.target_net = FALSE]
            /\ pc' = "episode"
            /\ UNCHANGED error
    /\ UNCHANGED <<envVars, bufVars, stepVars, batch_size, epsilon_decay, epsilon_min, count,
                   epsilon, episode, obs, action, next_obs, reward, done, trains,
                   sync_log>>

\* lines 158-162: the next episode starts with env.reset()
StartEpisode ==
    /\ pc = "episode"
    /\ episode < episodes
    /\ obs' = 0
    /\ pc' = "act"
    /\ UNCHANGED <<envVars, bufVars, stepVars, netVars, batch_size, epsilon_decay, epsilon_min,
                   error, count, epsilon, episode, action, next_obs, reward, done,
                   trains, sync_log>>

\* lines 188-189: all episodes are done
Finish ==
    /\ pc = "episode"
    /\ episode >= episodes
    /\ pc' = "saved"
    /\ UNCHANGED <<envVars, bufVars, stepVars, netVars, batch_size, epsilon_decay, epsilon_min,
                   error, count, epsilon, episode, obs, action, next_obs, reward, done,
                   trains, sync_log>>

\* lines 165-167
Act ==
    /\ pc = "act"
    /\ count < MaxCount
    /\ \E r \in RandomDraws, out \in ActOutputs, choice \in 0 .. action_dim - 1 :
          act("eval_net", r, out, choice)
    /\ pc' = "env_step"
    /\ UNCHANGED <<envVars, bufVars, stepVars, batch_size, epsilon_decay, epsilon_min, error,
                   count, epsilon, episode, obs, next_obs, reward, done, trains,
                   sync_log>>

\* lines 168-169
EnvStep ==
    /\ pc = "env_step"
    /\ \E o \in EnvOutcomes : next_obs' = o[1] /\ reward' = o[2] /\ done' = o[3]
    /\ pc' = "store"
    /\ UNCHANGED <<envVars, bufVars, stepVars, netVars, batch_size, epsilon_decay, epsilon_min,
                   error, count, epsilon, episode, obs, action, trains, sync_log>>

\* line 170
Store ==
    /\ pc = "store"
    /\ store(obs, action, reward, next_obs, done)
    /\ pc' = "count"
    /\ UNCHANGED <<envVars, log, sampled, stepVars, netVars, batch_size, epsilon_decay,
                   epsilon_min, error, count, epsilon, episode, obs, action, next_obs,
                   reward, done, trains, sync_log>>

\* lines 173-175
Count ==
    /\ pc = "count"
    /\ count' = count + 1
    /\ obs' = next_obs
    /\ pc' = "train"
    /\ UNCHANGED <<envVars, bufVars, stepVars, netVars, batch_size, epsilon_decay, epsilon_min,
                   error, epsilon, episode, action, next_obs, reward, done, trains,
                   sync_log>>

\* lines 176-177, the buffer is past the exploration threshold
TrainCall ==
    /\ pc = "train"
    /\ len_buffer > exploration
    /\ train
    /\ UNCHANGED <<envVars, bufVars, stepVars, training, batch_size, epsilon_decay, epsilon_min,
                   count, epsilon, episode, obs, action, next_obs, reward, done>>

\* line 176, the buffer is not
TrainSkip ==
    /\ pc = "train"
    /\ ~ (len_buffer > exploration)
    /\ pc' = "done"
    /\ UNCHANGED <<envVars, bufVars, stepVars, netVars, batch_size, epsilon_decay, epsilon_min,
                   error, count, epsilon, episode, obs, action, next_obs, reward, done,
                   trains, sync_log>>

\* lines 178-186: the episode ends, or the loop goes round
EndTick ==
    /\ pc = "done"
    /\ IF done
       THEN /\ epsilon' = epsilon_update(epsilon)
            /\ episode' = episode + 1
            /\ pc' = "episode"
       ELSE /\ pc' = "act"
            /\ UNCHANGED <<epsilon, episode>>
    /\ UNCHANGED <<envVars, bufVars, stepVars, netVars, batch_size, epsilon_decay, epsilon_min,
                   error, count, obs, action, next_obs, reward, done, trains, sync_log>>

MainNext ==
    \/ Setup
    \/ StartEpisode
    \/ Act
    \/ EnvStep
    \/ Store
    \/ Count
    \/ TrainCall
    \/ TrainSkip
    \/ EndTick
    \/ Finish

SpecMain == MainInit /\ [][MainNext]_vars

(***************************************************************************)
(* C5: the step counter only grows and is never reset; a training step     *)
(* whose counter is a multiple of update_freq leaves the target network    *)
(* with the online network's parameters as they are after that step's      *)
(* update, so that both are identical right after a sync, and successive   *)
(* syncs are update_freq training steps apart; every other step leaves the *)
(* target parameters as they were.                                         *)
(***************************************************************************)
TrainCompletes == pc = "train" /\ pc' = "done" /\ trains' = trains + 1

C5_Step ==
    /\ count' >= count
    /\ TrainCompletes =>
          IF count % update_freq = 0
          THEN /\ params'.target_net = params'.eval_net
               /\ Len(sync_log) >= 1 =>
                     trains' - sync_log[Len(sync_log)] = update_freq
          ELSE params'.target_net = params.target_net
    /\ (pc # "setup" /\ ~ TrainCompletes) => params'.target_net = params.target_net

C5_HardSync == [][C5_Step]_vars

\* the second sync, in a later episode than the first tick, with the target
\* network holding parameters it did not start with
C5_Witness ==
    /\ pc = "done"
    /\ Len(sync_log) = 2
    /\ count = 2 * update_freq
    /\ episode >= 1
    /\ params.target_net = params.eval_net
    /\ params.target_net = MaxParam

(***************************************************************************)
(* C6: epsilon never grows and never falls below epsilon_min; it changes   *)
(* only when an episode completes, where it becomes                        *)
(* max(epsilon * decay, epsilon_min), and no other step changes it.        *)
(***************************************************************************)
C6_Step ==
    /\ epsilon' <= epsilon
    /\ epsilon' >= epsilon_min
    /\ IF pc = "done" /\ done
       THEN epsilon' = Max((epsilon * epsilon_decay) \div EpsDen, epsilon_min)
       ELSE epsilon' = epsilon

C6_EpsilonDecay == [][C6_Step]_vars

\* two episodes are over, one of them longer than a tick, and epsilon has
\* come down to epsilon_min
C6_Witness ==
    /\ pc = "episode"
    /\ episode >= 2
    /\ count > episode
    /\ epsilon < epsilon_init
    /\ epsilon = epsilon_min

(***************************************************************************)
(* C8: a non-positive capacity, quant_num or batch_size is rejected at     *)
(* construction: the program ends with an error before any transition is   *)
(* stored or any training step runs.                                       *)
(***************************************************************************)
C8_ConfigRejected ==
    (capacity <= 0 \/ quant_num <= 0 \/ batch_size <= 0) =>
        \/ pc = "setup"
        \/ pc = "error" /\ count = 0 /\ trains = 0 /\ episode = 0

(***************************************************************************)
(* C11: each tick of the episode loop performs act, environment step,      *)
(* store, counter increment and then at most one train call, in that       *)
(* order; train is called only when the buffer length exceeds exploration; *)
(* with exploration >= batch_size - 1 the buffer holds at least batch_size *)
(* transitions at every train call and buffer.sample(batch_size) never     *)
(* fails; and once train has been called every later tick trains too.      *)
(***************************************************************************)
C11_Order ==
    /\ pc = "act" => pc' = "env_step"
    /\ pc = "env_step" => pc' = "store"
    /\ pc = "store" => pc' = "count"
    /\ pc = "count" => pc' = "train" /\ count' = count + 1
    /\ pc = "train" => pc' \in {"done", "error"}
    /\ pc = "done" => pc' \in {"act", "episode"}
    /\ action' # action => pc = "act"
    /\ <<next_obs', reward', done'>> # <<next_obs, reward, done>> => pc = "env_step"
    /\ memory' # memory => pc = "store"
    /\ count' # count => pc = "count"
    /\ trains' # trains => pc = "train" /\ trains' = trains + 1

C11_Guard ==
    /\ trains' # trains => len_buffer > exploration
    /\ (trains >= 1 /\ pc = "train") => trains' = trains + 1

C11_SampleSucceeds ==
    (exploration >= batch_size - 1 /\ trains' # trains) =>
        /\ len_buffer >= batch_size
        /\ ~ (pc' = "error" /\ error' = "ValueError")

C11_Step == C11_Order /\ C11_Guard /\ C11_SampleSucceeds

C11_TickOrder == [][C11_Step]_vars

\* the same for a batch size of at least one: the order, the guard and the
\* sample all hold; what fails in C11_TickOrder is sample with a batch size
\* of zero or less, which nothing before train refuses
C11_TickOrderFromOne == [][batch_size >= 1 => C11_Step]_vars

\* a second train call in a row, with a batch as large as the guard allows
C11_TrainsAgain ==
    /\ pc = "done"
    /\ trains = 2
    /\ batch_size = exploration + 1
    /\ len_buffer = batch_size

(***************************************************************************)
(* The two networks on their own: the calls the program makes on them      *)
(* (act, eval(), load_state_dict, optimizer.step), in any order and on     *)
(* either network.  pc names the call made last.                           *)
(***************************************************************************)
NetsInit ==
    /\ EnvIdle
    /\ BufIdle
    /\ StepIdle
    /\ action_dim = 2
    /\ quant_num = 1
    /\ params \in [Models -> ParamSpace]
    /\ training = [eval_net |-> TRUE, target_net |-> TRUE]  \* nn.Module.__init__
    /\ batch_size = 0
    /\ epsilon_decay = 0
    /\ epsilon_min = 0
    /\ pc = "none"
    /\ error = "none"
    /\ count = 0
    /\ epsilon \in {0, 500, EpsDen}
    /\ episode = 0
    /\ obs = 0
    /\ action = 0
    /\ next_obs = 0
    /\ reward = 0
    /\ done = FALSE
    /\ trains = 0
    /\ sync_log = << >>

NetsFrame ==
    UNCHANGED <<envVars, bufVars, stepVars, batch_size, epsilon_decay, epsilon_min, error,
                count, epsilon, episode, obs, next_obs, reward, done, trains,
                sync_log>>

\* m.act(observation, epsilon), lines 52-63
NetAct ==
    /\ \E m \in Models, r \in RandomDraws, out \in ActOutputs,
          choice \in 0 .. action_dim - 1 :
          act(m, r, out, choice)
    /\ pc' = "act"
    /\ NetsFrame

\* m.eval(), as line 148 does for target_net
NetEval ==
    /\ \E m \in Models : training' = [training EXCEPT ![m] = FALSE]
    /\ pc' = "eval"
    /\ UNCHANGED <<params, action>>
    /\ NetsFrame

\* target_net.load_state_dict(eval_net.state_dict()), lines 115 and 147
NetLoad ==
    /\ params' = [params EXCEPT !.target_net = params.eval_net]
    /\ pc' = "load_state_dict"
    /\ UNCHANGED <<training, action>>
    /\ NetsFrame

\* optimizer.step(), line 112
NetOptimize ==
    /\ \E p \in ParamSpace : params' = [params EXCEPT !.eval_net = p]
    /\ pc' = "step"
    /\ UNCHANGED <<training, action>>
    /\ NetsFrame

NetsNext == NetAct \/ NetEval \/ NetLoad \/ NetOptimize

SpecNets == NetsInit /\ [][NetsNext]_vars

(***************************************************************************)
(* C9: act leaves the network as it found it: whichever branch it takes    *)
(* and whichever mode the network was in, the parameters and the           *)
(* training/evaluation flag after the call are those before it.            *)
(***************************************************************************)
C9_ActPreservesState ==
    [][pc' = "act" => (params' = params /\ training' = training)]_vars

(***************************************************************************)
(* CustomEnv6.  The map comes from the data file: any grid of road and     *)
(* obstacle cells of MapRows x MapCols.  Positions are <<row, column>>.    *)
(* A distance is kept as its square (an integer); the terms of the reward  *)
(* that come from the data file (stop signs, traffic lights, speed limits) *)
(* are finite and are not computed: a reward is the sum `base` of its      *)
(* integer terms and the kind `road` of its progress term.                 *)
(***************************************************************************)
MapRows == 2
MapCols == 2
Road == 1
obstacle == 0
GoalReward == 10000
CollisionReward == -5

Maps == [0 .. MapRows - 1 -> [0 .. MapCols - 1 -> {obstacle, Road}]]

\* the start and goal arguments explored: on the grid and just off it
Coordinates == (-1 .. MapRows) \X (-1 .. MapCols)

\* numpy's a[i] on an axis of length n: -n .. -1 count from the end,
\* anything else off the axis raises IndexError
Indexable(i, n) == -n <= i /\ i < n
WrapIndex(i, n) == IF i < 0 THEN i + n ELSE i

\* self.Map[p[0], p[1]]
MapAt(p) == Map[WrapIndex(p[1], MapRows)][WrapIndex(p[2], MapCols)]

\* np.linalg.norm(p - q), squared
SqDist(p, q) == (p[1] - q[1]) * (p[1] - q[1]) + (p[2] - q[2]) * (p[2] - q[2])

\* CustomEnv6.__init__, lines 46-59: what the constructor raises, or "ok"
CustomEnv6_init(start, goal) ==
    IF ~ (Indexable(start[1], MapRows) /\ Indexable(start[2], MapCols))
    THEN "IndexError"
    ELSE IF MapAt(start) # Road THEN "ValueError"
    ELSE IF ~ (Indexable(goal[1], MapRows) /\ Indexable(goal[2], MapCols))
    THEN "IndexError"
    ELSE IF MapAt(goal) # Road THEN "ValueError"
    ELSE "ok"

\* lines 117-127: the cell an action leads to
Moved(p, a) ==
    CASE a = 0 -> <<p[1] - 1, p[2]>>
      [] a = 1 -> <<p[1] + 1, p[2]>>
      [] a = 2 -> <<p[1], p[2] - 1>>
      [] a = 3 -> <<p[1], p[2] + 1>>

\* lines 130-133
is_outside(p) == p[1] < 0 \/ p[1] >= MapRows \/ p[2] < 0 \/ p[2] >= MapCols

\* lines 130-138
Collides(p) == is_outside(p) \/ Map[p[1]][p[2]] = obstacle

\* _on_road_reward, lines 190-202, called with OldState and CurrentState
\* already updated: the kind of the progress term.  The quotient of line
\* 197-200 divides by norm(StartState - GoalState); numpy returns nan for
\* 0.0 / 0.0, and the dividend is 0 whenever the divisor is.
on_road_reward(next_position, old, current) ==
    IF SqDist(next_position, GoalState) < SqDist(old, GoalState)
    THEN IF SqDist(StartState, GoalState) = 0
         THEN "NaN"
         ELSE "progress"
    ELSE "regress"

\* CustomEnv6.step, lines 105-165
step(a) ==
    IF a \notin 0 .. 3
    THEN /\ env_ret' = [op |-> "step", action |-> a, status |-> "ValueError"]
         /\ UNCHANGED <<Map, StartState, GoalState, CurrentState, OldState, env_pc>>
    ELSE LET moved == Moved(CurrentState, a)
             collision == Collides(moved)
             next_position == IF collision THEN OldState ELSE moved
             hit == IF collision THEN CollisionReward ELSE 0
             at_goal == SqDist(next_position, GoalState) < 1
         IN  /\ OldState' = CurrentState
             /\ CurrentState' = next_position
             /\ env_ret' =
                  [op |-> "step", action |-> a, status |-> "ok",
                   observation |-> <<next_position, GoalState>>,
                   collision |-> collision,
                   done |-> at_goal,
                   reward |->
                     IF at_goal THEN [base |-> hit + GoalReward, road |-> "none"]
                     ELSE IF collision THEN [base |-> hit, road |-> "none"]
                     ELSE [base |-> hit,
                           road |-> on_road_reward(next_position, CurrentState,
                                                   next_position)]]
             /\ UNCHANGED <<Map, StartState, GoalState, env_pc>>

\* CustomEnv6.reset, lines 167-177
reset ==
    /\ CurrentState' = StartState
    /\ OldState' = StartState
    /\ env_ret' = [op |-> "reset", status |-> "ok",
                   observation |-> <<StartState, GoalState>>]
    /\ env_pc' = "ready"
    /\ UNCHANGED <<Map, StartState, GoalState>>

EnvInit ==
    /\ BufIdle
    /\ DimsIdle
    /\ StepIdle
    /\ NetIdle
    /\ MainIdle
    /\ Map \in Maps
    /\ StartState \in Coordinates
    /\ GoalState \in Coordinates
    /\ CurrentState = StartState        \* lines 48-49
    /\ OldState = StartState
    /\ env_pc = "new"
    /\ env_ret = [op |-> "none"]

EnvFrame == UNCHANGED <<bufVars, stepVars, netVars, mainVars>>

\* CustomEnv6(start, goal, data_file)
EnvConstruct ==
    /\ env_pc = "new"
    /\ env_pc' = IF CustomEnv6_init(StartState, GoalState) = "ok"
                 THEN "constructed" ELSE "error"
    /\ env_ret' = [op |-> "init", status |-> CustomEnv6_init(StartState, GoalState)]
    /\ UNCHANGED <<Map, StartState, GoalState, CurrentState, OldState>>
    /\ EnvFrame

EnvReset ==
    /\ env_pc \in {"constructed", "ready"}
    /\ reset
    /\ EnvFrame

EnvStepCall ==
    /\ env_pc \in {"constructed", "ready"}
    /\ \E a \in 0 .. 4 : step(a)
    /\ EnvFrame

EnvNext == EnvConstruct \/ EnvReset \/ EnvStepCall

SpecEnv == EnvInit /\ [][EnvNext]_vars

(***************************************************************************)
(* C10: when StartState equals GoalState, no step after reset divides by   *)
(* the zero start-goal distance: the returned reward is never NaN.  (The   *)
(* start is taken on the map, the case the claim is about.)                *)
(***************************************************************************)
C10_ZeroDistanceGuarded ==
    (/\ StartState = GoalState
     /\ ~ is_outside(StartState)
     /\ env_pc = "ready"
     /\ env_ret.op = "step"
     /\ env_ret.status = "ok") => env_ret.reward.road # "NaN"

(***************************************************************************)
(* C12: after a successful construction and any reset and step calls, both *)
(* CurrentState and OldState are inside the map bounds and never on an     *)
(* obstacle cell; a move with an action in 0 .. 3 that leaves the map or   *)
(* hits an obstacle sends the vehicle to OldState rather than to the       *)
(* blocked cell and adds CollisionReward to the step's reward; a step with *)
(* any other action raises an error and leaves both positions unchanged.   *)
(***************************************************************************)
OnRoad(p) == ~ is_outside(p) /\ Map[p[1]][p[2]] # obstacle

C12_Positions ==
    env_pc \in {"constructed", "ready"} => OnRoad(CurrentState) /\ OnRoad(OldState)

C12_Step ==
    (env_pc \in {"constructed", "ready"} /\ env_ret'.op = "step") =>
        LET a == env_ret'.action
            target == Moved(CurrentState, a)
        IN  IF a \in 0 .. 3
            THEN /\ env_ret'.status = "ok"
                 /\ OldState' = CurrentState
                 /\ IF ~ OnRoad(target)
                    THEN /\ CurrentState' = OldState
                         /\ CurrentState' # target
                         /\ env_ret'.collision
                         /\ env_ret'.reward.base = CollisionReward
                               + (IF env_ret'.done THEN GoalReward ELSE 0)
                    ELSE /\ CurrentState' = target
                         /\ ~ env_ret'.collision
                         /\ env_ret'.reward.base =
                               (IF env_ret'.done THEN GoalReward ELSE 0)
            ELSE /\ env_ret'.status = "ValueError"
                 /\ CurrentState' = CurrentState
                 /\ OldState' = OldState

C12_StaysOnRoad == [] C12_Positions /\ [][C12_Step]_vars

\* the same for a start given by its coordinates on the map, which is where
\* the claim holds: a negative start coordinate passes the constructor's
\* test by numpy's wrap-around and leaves the vehicle off the map
C12_StaysOnRoadFromMap ==
    [] (~ is_outside(StartState) => C12_Positions)
    /\ [][~ is_outside(StartState) => C12_Step]_vars

\* a collision away from the start: the vehicle is back where it was two
\* steps ago, and OldState is the cell it tried to leave
C12_SteppedBack ==
    /\ env_pc = "ready"
    /\ ~ is_outside(StartState)
    /\ env_ret.op = "step"
    /\ env_ret.status = "ok"
    /\ env_ret.collision
    /\ CurrentState # OldState
    /\ OldState # StartState

====
